---- MODULE Spec2Model ----
(***************************************************************************)
(* Model of backend/server.py: the landing-page CRUD handlers over the     *)
(* landing_pages collection and the HTML renderer generate_html_export.    *)
(*                                                                         *)
(* A handler is a coroutine: it runs up to its first await (where it has   *)
(* already evaluated datetime.utcnow() for the update document), the       *)
(* database operation is then applied atomically by the store, and the     *)
(* handler finishes with its response.  Requests of different clients      *)
(* interleave at the awaits.                                               *)
(***************************************************************************)
EXTENDS Integers, Sequences, FiniteSets, TLC

VARIABLES
    store,      \* db.landing_pages: the documents, in natural (insertion) order
    clock,      \* the value datetime.utcnow() returns now
    nextId,     \* number of the next uuid4 to be drawn
    pc,         \* per request slot: "idle", "db" (first await), "reread"
    req,        \* per request slot: the request being (or last) handled
    resp,       \* per request slot: the response of the last finished request
    calls,      \* number of requests accepted so far
    rPage,      \* renderer harness: the page handed to generate_html_export
    rOut        \* renderer harness: what generate_html_export produced

vars == <<store, clock, nextId, pc, req, resp, calls, rPage, rOut>>

storeVars == <<store, clock, nextId, pc, req, resp, calls>>
renderVars == <<rPage, rOut>>

----------------------------------------------------------------------------
(* Bounds *)

NumProcs == 2
MaxPages == 2
MaxIds == 2
MaxComps == 2
MaxClock == 1
MaxRenderComps == 2
MaxCalls == 4

Procs == 1..NumProcs

\* the uuid4 values create_landing_page draws, in the order it draws them
PageIds == 1..MaxIds

\* a page id the server never issued
MissingId == 0

\* the page ids in the path of a request
PathPageIds == PageIds \cup {MissingId}

----------------------------------------------------------------------------
(* JSON values and mappings *)

EmptyMap == [k \in {} |-> 0]

Str(s) == [t |-> "str", v |-> s]
Num(s) == [t |-> "num", v |-> s]

\* dict.get(key, default)
DictGet(d, k, default) == IF k \in DOMAIN d THEN d[k] ELSE default

----------------------------------------------------------------------------
(* Components (ComponentData) *)

Comp(id, type, content, position, style) ==
    [id |-> id, type |-> type, content |-> content,
     position |-> position, style |-> style]

XY == [x |-> 10, y |-> 20]

\* the components the clients of the store send
StoreComps ==
    { Comp("c1", "text", [text |-> Str("Hi")], XY, EmptyMap),
      Comp("c1", "form", EmptyMap, XY, EmptyMap),
      Comp("c2", "text", [text |-> Str("Yo")], XY, EmptyMap) }

NoComp == Comp("", "", EmptyMap, EmptyMap, EmptyMap)

----------------------------------------------------------------------------
(* Page documents (LandingPageData.dict()).  oid is not a field of the     *)
(* document: it records the uuid4 the page was created with.               *)

Titles == {"A"}

\* a JSON null where the data model declares a str
JsonNull == "<null>"

\* LandingPageData(**page): pydantic accepts the document (title: str)
Validates(doc) == doc.title # JsonNull

NewPage(id, title, now) ==
    [id |-> id, title |-> title, theme |-> "dark", components |-> <<>>,
     updated_at |-> now, oid |-> id]

\* the request bodies of PUT /pages/{page_id}: any JSON object
Bodies ==
    {EmptyMap, [title |-> "B"], [theme |-> "light"], [title |-> JsonNull]}
      \cup {[id |-> i] : i \in PageIds}

----------------------------------------------------------------------------
(* The document store: MongoDB's single-document operations *)

\* indexes of the documents matching {"id": id}
Matching(s, id) == {i \in 1..Len(s) : s[i].id = id}

Min(S) == CHOOSE m \in S : \A n \in S : m <= n

\* find_one({"id": id}): index of the first match, 0 when there is none
FindOne(s, id) == IF Matching(s, id) = {} THEN 0 ELSE Min(Matching(s, id))

\* the document a handler would write if it wrote a whole page back, the
\* fields it does not name as the page was created with: a replacement of
\* the document instead of the $set C16 is about
SetFields_replacing(doc, fields) ==
    [f \in DOMAIN doc |->
        IF f \in DOMAIN fields /\ f # "oid" THEN fields[f]
        ELSE IF f \in {"title", "theme"} THEN NewPage(doc.id, "A", 0)[f]
        ELSE doc[f]]

\* {"$set": fields} on one document
SetFields(doc, fields) ==
    [f \in DOMAIN doc |->
        IF f \in DOMAIN fields /\ f # "oid" THEN fields[f] ELSE doc[f]]

\* the list a handler would write back if it appended c to a list it had
\* read before another add_component ran: a write of the whole array
\* instead of the $push C12 is about
Push_overwriting(comps, c) == <<c>>

\* {"$push": {"components": c}}
Push(comps, c) == Append(comps, c)

\* {"$pull": {"components": {"id": cid}}}
Pull(comps, cid) == SelectSeq(comps, LAMBDA c : c.id # cid)

HasComp(comps, cid) == \E j \in 1..Len(comps) : comps[j].id = cid

\* a positional update that keeps the id of the component it matched and
\* takes the rest of c: a merge by id, not the replacement of the whole
\* body that C15 is about
SetPositional_keeping_id(comps, cid, c) ==
    IF ~HasComp(comps, cid) THEN comps
    ELSE LET j == Min({k \in 1..Len(comps) : comps[k].id = cid})
         IN  [comps EXCEPT ![j] = [c EXCEPT !.id = cid]]

\* {"$set": {"components.$": c}} with the query "components.id": cid:
\* the first array element the query matched is replaced
SetPositional(comps, cid, c) ==
    IF ~HasComp(comps, cid) THEN comps
    ELSE [comps EXCEPT ![Min({k \in 1..Len(comps) : comps[k].id = cid})] = c]

\* update_one(filter, update): the first document the filter matches is
\* replaced by its updated version, updated[i] for document i; no match,
\* no write
UpdateOne(s, match, updated) ==
    IF match = {} THEN s
    ELSE [s EXCEPT ![Min(match)] = updated[Min(match)]]

\* delete_one({"id": id})
DeleteOne(s, id) ==
    LET i == FindOne(s, id)
    IN  IF i = 0 THEN s
        ELSE [k \in 1..(Len(s) - 1) |-> IF k < i THEN s[k] ELSE s[k + 1]]

----------------------------------------------------------------------------
(* generate_html_export.  The document is modelled by the values the       *)
(* template interpolates: the page's title and, per component, the style   *)
(* block and the element of its type.                                      *)

RecognisedTypes == {"text", "button", "chatbot", "livechat"}

\* str.title() on the provider names in use
TitleCase(s) ==
    CASE s = "tidio" -> "Tidio"
      [] s = "crisp" -> "Crisp"
      [] OTHER -> s

\* comp_dict['position']['x'] and ['y']: plain subscripts
StyleRaises(c) == ~({"x", "y"} \subseteq DOMAIN c.position)

\* the f-string component_style
ComponentStyle(c) ==
    [left |-> c.position["x"],
     top |-> c.position["y"],
     background |-> DictGet(c.style, "background", Str("rgba(192,192,192,0.1)")),
     color |-> DictGet(c.style, "color", Str("#ffffff")),
     borderRadius |-> DictGet(c.style, "borderRadius", Str("12px")),
     fontFamily |-> DictGet(c.content, "fontFamily", Str("Inter"))]

\* .title() exists on str only
ProviderRaises(c) ==
    c.type = "livechat" /\ DictGet(c.content, "provider", Str("tidio")).t # "str"

\* the exception the loop body raises on c, "none" when it raises nothing
CompError(c) ==
    IF StyleRaises(c) THEN "KeyError"
    ELSE IF ProviderRaises(c) THEN "AttributeError"
    ELSE "none"

\* what the loop body appends to components_html for c
Fragment(c) ==
    CASE c.type = "text" ->
           <<[el |-> DictGet(c.content, "tag", Str("p")),
              style |-> ComponentStyle(c),
              fontSize |-> DictGet(c.style, "fontSize", Str("16")),
              text |-> DictGet(c.content, "text", Str(""))]>>
      [] c.type = "button" ->
           <<[el |-> Str("button"),
              style |-> ComponentStyle(c),
              onclick |-> DictGet(c.content, "action", Str("")),
              text |-> DictGet(c.content, "text", Str("Button"))]>>
      [] c.type = "chatbot" ->
           <<[el |-> Str("chatbot"),
              style |-> ComponentStyle(c),
              greeting |-> DictGet(c.content, "greeting",
                                   Str("Hello! How can I help you today?")),
              placeholder |-> DictGet(c.content, "placeholder",
                                      Str("Ask me anything..."))]>>
      [] c.type = "livechat" ->
           <<[el |-> Str("livechat"),
              style |-> ComponentStyle(c),
              provider |-> Str(TitleCase(DictGet(c.content, "provider",
                                                 Str("tidio")).v))]>>
      [] OTHER -> <<>>

\* the for loop over page_data.components, from component i on, with the
\* components_html accumulated so far
RECURSIVE RenderLoop(_, _, _)
RenderLoop(comps, i, html) ==
    IF i > Len(comps) THEN [err |-> "none", html |-> html]
    ELSE IF CompError(comps[i]) # "none"
         THEN [err |-> CompError(comps[i]), html |-> <<>>]
         ELSE RenderLoop(comps, i + 1, html \o Fragment(comps[i]))

generate_html_export(page) ==
    LET r == RenderLoop(page.components, 1, <<>>)
    IN  IF r.err # "none" THEN [err |-> r.err, title |-> "", html |-> <<>>]
        ELSE [err |-> "none", title |-> page.title, html |-> r.html]

NotRendered == [err |-> "pending", title |-> "", html |-> <<>>]

----------------------------------------------------------------------------
(* Requests and responses *)

Req(op, page_id, title, body, cid, comp, ts) ==
    [op |-> op, page_id |-> page_id, title |-> title, body |-> body,
     cid |-> cid, comp |-> comp, ts |-> ts]

NoReq == Req("none", MissingId, "", EmptyMap, "", NoComp, 0)

PathCompIds == {"c1", "c2"}

\* the requests a client can send; now is what utcnow() returns while the
\* handler builds its document or update (create and the mutating handlers).
\* The ids clients know are the ones the server has issued: the page id of
\* the path is one of them or MissingId, an 'id' in a body is one of them.
Requests(now) ==
    {Req("create", MissingId, t, EmptyMap, "", NoComp, now) : t \in Titles}
      \cup {Req("list", MissingId, "", EmptyMap, "", NoComp, 0)}
      \cup {Req(op, i, "", EmptyMap, "", NoComp, 0) :
              op \in {"get", "delete", "export", "embed", "ftp", "email"},
              i \in PathPageIds}
      \cup {Req("update", i, "", b, "", NoComp, now) :
              i \in PathPageIds, b \in Bodies}
      \cup {Req("add", i, "", EmptyMap, "", c, now) :
              i \in PathPageIds, c \in StoreComps}
      \cup {Req("update_comp", i, "", EmptyMap, k, c, now) :
              i \in PathPageIds, k \in PathCompIds, c \in StoreComps}
      \cup {Req("delete_comp", i, "", EmptyMap, k, NoComp, now) :
              i \in PathPageIds, k \in PathCompIds}

NotFoundDetail == "Landing page not found"

\* a response: the status, the detail of an HTTPException, the pages and
\* the document in the body (sequences, empty when the body has none), and
\* whether the handler opened an FTP session
Resp(status, detail, page, out, ftp) ==
    [status |-> status, detail |-> detail, page |-> page, out |-> out,
     ftp |-> ftp]

NoResp == Resp(0, "", <<>>, <<>>, FALSE)

Ok == Resp(200, "", <<>>, <<>>, FALSE)

\* raise HTTPException(status_code=404, detail="Landing page not found")
NotFound == Resp(404, NotFoundDetail, <<>>, <<>>, FALSE)

\* the same exception caught by "except Exception" and raised again as 500
Wrapped(prefix) == Resp(500, prefix, <<>>, <<>>, FALSE)

\* an exception no handler catches: 500 Internal Server Error
ServerError(e) == Resp(500, e, <<>>, <<>>, FALSE)

\* what a handler answers with a page it found: LandingPageData(**page)
Returned(page) ==
    IF Validates(page) THEN Resp(200, "", <<page>>, <<>>, FALSE)
    ELSE ServerError("ValidationError")

\* the number of add_component and create requests in flight
InFlight(op) == Cardinality({p \in Procs : pc[p] = "db" /\ req[p].op = op})

----------------------------------------------------------------------------
(* The handlers *)

Finish(p, r) ==
    /\ pc' = [pc EXCEPT ![p] = "done"]
    /\ resp' = [resp EXCEPT ![p] = r]

\* datetime.utcnow() advances
Tick ==
    /\ clock < MaxClock
    /\ clock' = clock + 1
    /\ UNCHANGED <<store, nextId, pc, req, resp, calls, rPage, rOut>>

\* one of the requests reqs arrives, the budget-th at most, and its handler
\* runs up to its first await; the slots are interchangeable, so a request
\* takes the lowest free one
CallFrom(p, reqs, budget) ==
    /\ pc[p] = "idle"
    /\ \A q \in Procs : q < p => pc[q] # "idle"
    /\ calls < budget
    /\ \E r \in reqs :
         /\ r.page_id < nextId
         /\ r.op = "create" =>
              /\ Len(store) + InFlight("create") < MaxPages
              /\ nextId + InFlight("create") <= MaxIds
         /\ (r.op = "update" /\ "id" \in DOMAIN r.body) => r.body.id < nextId
         /\ r.op = "add" =>
              \A i \in 1..Len(store) :
                 Len(store[i].components) + InFlight("add") < MaxComps
         /\ req' = [req EXCEPT ![p] = r]
    /\ pc' = [pc EXCEPT ![p] = "db"]
    /\ calls' = calls + 1
    /\ UNCHANGED <<store, clock, nextId, resp, rPage, rOut>>

\* any request arrives
Call(p) == CallFrom(p, Requests(clock), MaxCalls)

\* the response has been sent
Return(p) ==
    /\ pc[p] = "done"
    /\ pc' = [pc EXCEPT ![p] = "idle"]
    /\ req' = [req EXCEPT ![p] = NoReq]
    /\ resp' = [resp EXCEPT ![p] = NoResp]
    /\ UNCHANGED <<store, clock, nextId, calls, rPage, rOut>>

create_landing_page(p) ==
    /\ pc[p] = "db" /\ req[p].op = "create"
    /\ LET page_obj == NewPage(nextId, req[p].title, req[p].ts)
       IN  /\ store' = Append(store, page_obj)
           /\ Finish(p, Resp(200, "", <<page_obj>>, <<>>, FALSE))
    /\ nextId' = nextId + 1
    /\ UNCHANGED <<clock, req, calls, rPage, rOut>>

get_landing_pages(p) ==
    /\ pc[p] = "db" /\ req[p].op = "list"
    /\ Finish(p, IF \A i \in 1..Len(store) : Validates(store[i])
                 THEN Resp(200, "", store, <<>>, FALSE)
                 ELSE ServerError("ValidationError"))
    /\ UNCHANGED <<store, clock, nextId, req, calls, rPage, rOut>>

get_landing_page(p) ==
    /\ pc[p] = "db" /\ req[p].op = "get"
    /\ LET i == FindOne(store, req[p].page_id)
       IN  Finish(p, IF i = 0 THEN NotFound ELSE Returned(store[i]))
    /\ UNCHANGED <<store, clock, nextId, req, calls, rPage, rOut>>

\* update_landing_page up to the await of find_one: the update_one
update_landing_page(p) ==
    /\ pc[p] = "db" /\ req[p].op = "update"
    /\ LET page_data == [updated_at |-> req[p].ts] @@ req[p].body
       IN  store' = UpdateOne(store, Matching(store, req[p].page_id),
                      [i \in 1..Len(store) |-> SetFields(store[i], page_data)])
    /\ pc' = [pc EXCEPT ![p] = "reread"]
    /\ UNCHANGED <<clock, nextId, req, resp, calls, rPage, rOut>>

\* update_landing_page from the find_one on
update_landing_page_reread(p) ==
    /\ pc[p] = "reread"
    /\ LET i == FindOne(store, req[p].page_id)
       IN  Finish(p, IF i = 0 THEN NotFound ELSE Returned(store[i]))
    /\ UNCHANGED <<store, clock, nextId, req, calls, rPage, rOut>>

delete_landing_page(p) ==
    /\ pc[p] = "db" /\ req[p].op = "delete"
    /\ store' = DeleteOne(store, req[p].page_id)
    /\ Finish(p, IF FindOne(store, req[p].page_id) = 0 THEN NotFound
                 ELSE Ok)
    /\ UNCHANGED <<clock, nextId, req, calls, rPage, rOut>>

add_component(p) ==
    /\ pc[p] = "db" /\ req[p].op = "add"
    /\ store' = UpdateOne(store, Matching(store, req[p].page_id),
                   [i \in 1..Len(store) |->
                     [store[i] EXCEPT !.components = Push(@, req[p].comp),
                                      !.updated_at = req[p].ts]])
    /\ Finish(p, Ok)
    /\ UNCHANGED <<clock, nextId, req, calls, rPage, rOut>>

update_component(p) ==
    /\ pc[p] = "db" /\ req[p].op = "update_comp"
    /\ store' = UpdateOne(store,
                   {i \in Matching(store, req[p].page_id) :
                      HasComp(store[i].components, req[p].cid)},
                   [i \in 1..Len(store) |->
                     [store[i] EXCEPT !.components =
                                    SetPositional(@, req[p].cid, req[p].comp),
                                      !.updated_at = req[p].ts]])
    /\ Finish(p, Ok)
    /\ UNCHANGED <<clock, nextId, req, calls, rPage, rOut>>

delete_component(p) ==
    /\ pc[p] = "db" /\ req[p].op = "delete_comp"
    /\ store' = UpdateOne(store, Matching(store, req[p].page_id),
                   [i \in 1..Len(store) |->
                     [store[i] EXCEPT !.components = Pull(@, req[p].cid),
                                      !.updated_at = req[p].ts]])
    /\ Finish(p, Ok)
    /\ UNCHANGED <<clock, nextId, req, calls, rPage, rOut>>

\* the handler calls generate_html_export(page) when called is true: rPage
\* and rOut keep the argument and the result of the renderer's last call
Renders(called, page) ==
    IF called
    THEN rPage' = page /\ rOut' = generate_html_export(page)
    ELSE UNCHANGED <<rPage, rOut>>

\* export_landing_page if it refreshed updated_at as the mutating handlers
\* do: the handler C11 tells export_landing_page from
export_landing_page_refreshing(p) ==
    /\ pc[p] = "db" /\ req[p].op = "export"
    /\ LET i == FindOne(store, req[p].page_id)
           html_content == generate_html_export(store[i])
       IN  /\ Finish(p, IF i = 0 THEN NotFound
                        ELSE Resp(200, "", <<>>, <<html_content>>, FALSE))
           /\ Renders(i # 0, store[i])
           /\ store' = UpdateOne(store, Matching(store, req[p].page_id),
                          [k \in 1..Len(store) |->
                            [store[k] EXCEPT !.updated_at = clock]])
    /\ UNCHANGED <<clock, nextId, req, calls>>

export_landing_page(p) ==
    /\ pc[p] = "db" /\ req[p].op = "export"
    /\ LET i == FindOne(store, req[p].page_id)
           html_content == generate_html_export(store[i])
       IN  /\ Finish(p, IF i = 0 THEN NotFound
                        ELSE IF ~Validates(store[i])
                        THEN ServerError("ValidationError")
                        ELSE IF html_content.err # "none"
                             THEN ServerError(html_content.err)
                             ELSE Resp(200, "", <<>>, <<html_content>>, FALSE))
           /\ Renders(i # 0 /\ Validates(store[i]), store[i])
    /\ UNCHANGED <<store, clock, nextId, req, calls>>

get_embed_code(p) ==
    /\ pc[p] = "db" /\ req[p].op = "embed"
    /\ Finish(p, IF FindOne(store, req[p].page_id) = 0 THEN NotFound ELSE Ok)
    /\ UNCHANGED <<store, clock, nextId, req, calls, rPage, rOut>>

\* the whole body is inside try ... except Exception, which also catches
\* the HTTPException(404) raised for a missing page
ftp_upload_page(p) ==
    /\ pc[p] = "db" /\ req[p].op = "ftp"
    /\ LET i == FindOne(store, req[p].page_id)
           html_content == generate_html_export(store[i])
       IN  /\ Renders(i # 0 /\ Validates(store[i]), store[i])
           /\ \E transfer_ok \in BOOLEAN :
              Finish(p,
                IF i = 0
                THEN Wrapped("FTP upload failed: 404: Landing page not found")
                ELSE IF ~Validates(store[i]) \/ html_content.err # "none"
                     THEN Wrapped("FTP upload failed")
                     ELSE IF transfer_ok
                          THEN Resp(200, "", <<>>, <<html_content>>, TRUE)
                          ELSE Resp(500, "FTP upload failed", <<>>, <<>>, TRUE))
    /\ UNCHANGED <<store, clock, nextId, req, calls>>

email_landing_page(p) ==
    /\ pc[p] = "db" /\ req[p].op = "email"
    /\ LET i == FindOne(store, req[p].page_id)
           content == generate_html_export(store[i])
       IN  \E format \in {"html", "iframe"} :
              /\ Renders(i # 0 /\ Validates(store[i]) /\ format = "html",
                         store[i])
              /\ Finish(p,
                   IF i = 0
                   THEN Wrapped("Email sending failed: 404: Landing page not found")
                   ELSE IF ~Validates(store[i])
                             \/ (format = "html" /\ content.err # "none")
                        THEN Wrapped("Email sending failed")
                        ELSE IF format = "html"
                             THEN Resp(200, "", <<>>, <<content>>, FALSE)
                             ELSE Ok)
    /\ UNCHANGED <<store, clock, nextId, req, calls>>

----------------------------------------------------------------------------
(* The renderer on its own: generate_html_export applied to a page *)

RenderTypes == {"text", "button", "chatbot", "livechat", "form"}

RenderContents ==
    {EmptyMap,
     [text |-> Str("Hi"), tag |-> Str("h1")],
     [provider |-> Str("crisp")],
     [provider |-> Num("7")]}

RenderPositions == {XY, [y |-> 20], EmptyMap}

RenderStyles == {EmptyMap, [color |-> Str("#fff")]}

RenderCompSet ==
    {Comp("c1", t, c, q, st) :
        t \in RenderTypes, c \in RenderContents,
        q \in RenderPositions, st \in RenderStyles}

SeqsUpTo(S, n) == UNION {[1..k -> S] : k \in 0..n}

RenderPages ==
    {[id |-> 1, title |-> "A", theme |-> "dark", components |-> cs,
      updated_at |-> 0, oid |-> 1] : cs \in SeqsUpTo(RenderCompSet, MaxRenderComps)}

NoPage == NewPage(0, "", 0)

Render ==
    /\ rOut = NotRendered
    /\ rOut' = generate_html_export(rPage)
    /\ UNCHANGED <<store, clock, nextId, pc, req, resp, calls, rPage>>

----------------------------------------------------------------------------
(* Specifications *)

Init ==
    /\ store = <<>>
    /\ clock = 0
    /\ nextId = 1
    /\ pc = [p \in Procs |-> "idle"]
    /\ req = [p \in Procs |-> NoReq]
    /\ resp = [p \in Procs |-> NoResp]
    /\ calls = 0
    /\ rPage = NoPage
    /\ rOut = NotRendered

Handler(p) ==
    \/ create_landing_page(p)
    \/ get_landing_pages(p)
    \/ get_landing_page(p)
    \/ update_landing_page(p)
    \/ update_landing_page_reread(p)
    \/ delete_landing_page(p)
    \/ add_component(p)
    \/ update_component(p)
    \/ delete_component(p)
    \/ export_landing_page(p)
    \/ get_embed_code(p)
    \/ ftp_upload_page(p)
    \/ email_landing_page(p)

Next ==
    \/ Tick
    \/ \E p \in Procs : Call(p) \/ Handler(p) \/ Return(p)

Spec == Init /\ [][Next]_vars

\* Scenarios: one page has been created and has been given some components
\* (create_landing_page, then add_component for each) at the time 0, and
\* the clients send requests of some operations on that page, all of them
\* within one reading of the clock; calls counts these requests.

MaxEdits == 2

InitPage ==
    /\ store \in {<<[NewPage(1, "A", 0) EXCEPT !.components = cs]>> :
                     cs \in SeqsUpTo(StoreComps, MaxComps - 1)}
    /\ clock \in 0..MaxClock
    /\ nextId = 2
    /\ pc = [p \in Procs |-> "idle"]
    /\ req = [p \in Procs |-> NoReq]
    /\ resp = [p \in Procs |-> NoResp]
    /\ calls = 0
    /\ rPage = NoPage
    /\ rOut = NotRendered

\* the requests of the operations ops on the page of the scenario
OnPage(ops) == {r \in Requests(clock) : r.op \in ops /\ r.page_id = 1}

ComponentOps == {"add", "update_comp", "delete_comp"}

NextComponents ==
    \E p \in Procs :
       \/ CallFrom(p, OnPage(ComponentOps), MaxEdits)
       \/ add_component(p)
       \/ update_component(p)
       \/ delete_component(p)
       \/ Return(p)

SpecComponents == InitPage /\ [][NextComponents]_vars

NextUpdates ==
    \E p \in Procs :
       \/ CallFrom(p, OnPage({"update"}), MaxEdits)
       \/ update_landing_page(p)
       \/ update_landing_page_reread(p)
       \/ Return(p)

SpecUpdates == InitPage /\ [][NextUpdates]_vars

NextExports ==
    \E p \in Procs :
       \/ CallFrom(p, OnPage({"add", "export", "embed", "email"}), MaxEdits)
       \/ add_component(p)
       \/ export_landing_page(p)
       \/ get_embed_code(p)
       \/ email_landing_page(p)
       \/ Return(p)

SpecExports == InitPage /\ [][NextExports]_vars

InitRender ==
    /\ store = <<>>
    /\ clock = 0
    /\ nextId = 1
    /\ pc = [p \in Procs |-> "idle"]
    /\ req = [p \in Procs |-> NoReq]
    /\ resp = [p \in Procs |-> NoResp]
    /\ calls = 0
    /\ rPage \in RenderPages
    /\ rOut = NotRendered

NextRender == Render

SpecRender == InitRender /\ [][NextRender]_vars

----------------------------------------------------------------------------
(* Properties *)

\* slot p takes a handler step (a database operation and what follows it)
Steps(p) == pc[p] \in {"db", "reread"} /\ pc'[p] # pc[p]

\* slot p sends its response in this step
Responds(p) == Steps(p) /\ pc'[p] = "done"

Absent(id) == FindOne(store, id) = 0

Front(q) == SubSeq(q, 1, Len(q) - 1)

\* C1: add_component(page, c) followed by delete_component(page, c.id)
\* gives back the components list the page had before the add: whenever
\* delete_component(page, cid) acts on a list L \o <<c>> with c.id = cid,
\* which is the list add_component(page, c) makes of L, it leaves L.
C1_AddDeleteRoundTrip ==
    [][\A p \in Procs :
         (Responds(p) /\ req[p].op = "delete_comp" /\ ~Absent(req[p].page_id)) =>
            LET i == FindOne(store, req[p].page_id)
                comps == store[i].components
            IN  (Len(comps) > 0 /\ comps[Len(comps)].id = req[p].cid) =>
                   store'[i].components = Front(comps)]_vars

MutatingOps == {"update", "delete", "add", "update_comp", "delete_comp"}

\* C2: every mutating page operation called with a page id that is not in
\* the store answers 404 'Landing page not found' and leaves the store as
\* it was.
C2_MutatingMissingPage404 ==
    [][\A p \in Procs :
         (Steps(p) /\ req[p].op \in MutatingOps /\ Absent(req[p].page_id)) =>
            /\ store' = store
            /\ pc'[p] = "done" => resp'[p] = NotFound]_vars

\* C3: the id of a stored page is the id it was created with.
C3_IdImmutable ==
    \A i \in 1..Len(store) : store[i].id = store[i].oid

\* C4: updated_at of a stored page never decreases, whatever the
\* interleaving of the requests.
C4_UpdatedAtMonotone ==
    [][\A i \in 1..Len(store) : \A j \in 1..Len(store') :
         store[i].oid = store'[j].oid =>
            store'[j].updated_at >= store[i].updated_at]_vars

UniqueIds ==
    \A i, j \in 1..Len(store) : store[i].id = store[j].id => i = j

\* C5: no two page documents have the same id, and get_landing_page(id)
\* for an id create_landing_page returned answers with a page of that id
\* as long as that page has not been deleted.
C5_UniqueStableIds ==
    /\ [][UniqueIds']_vars
    /\ [][\A p \in Procs :
           (Responds(p) /\ req[p].op = "get"
              /\ \E i \in 1..Len(store) : store[i].oid = req[p].page_id) =>
              /\ resp'[p].status = 200
              /\ resp'[p].page[1].id = req[p].page_id
              /\ resp'[p].page[1].oid = req[p].page_id]_vars

\* C6: the components of a page have pairwise distinct ids.
C6_UniqueComponentIds ==
    \A i \in 1..Len(store) :
       \A j, k \in 1..Len(store[i].components) :
          store[i].components[j].id = store[i].components[k].id => j = k

PageReadingOps == {"export", "embed", "ftp", "email"}

\* C7: export_landing_page, get_embed_code, ftp_upload_page and
\* email_landing_page called with a page id that is not in the store
\* answer 404, and ftp_upload_page opens no FTP session.
C7_ReadersMissingPage404 ==
    [][\A p \in Procs :
         (Responds(p) /\ req[p].op \in PageReadingOps
            /\ Absent(req[p].page_id)) =>
            resp'[p].status = 404 /\ ~resp'[p].ftp]_vars

\* C8: update_component and delete_component on an existing page with a
\* component id no component of the page has answer 404 and leave the
\* page, its updated_at included, as it was.
C8_MissingComponent404 ==
    [][\A p \in Procs :
         (Responds(p) /\ req[p].op \in {"update_comp", "delete_comp"}
            /\ ~Absent(req[p].page_id)
            /\ \A i \in Matching(store, req[p].page_id) :
                  ~HasComp(store[i].components, req[p].cid)) =>
            resp'[p].status = 404 /\ store' = store]_vars

\* C9: generate_html_export returns a document and raises nothing for
\* every page of the data model, whichever keys its components' content,
\* style and position lack and whatever the type of the values.
C9_RenderNeverRaises ==
    rOut # NotRendered => rOut.err = "none"

Recognised(comps) == SelectSeq(comps, LAMBDA c : c.type \in RecognisedTypes)

\* C10: the fragments are those of the components of a recognised type,
\* in array order, one each; a component of another type adds no fragment,
\* raises nothing and changes no other fragment: a page renders as the
\* page without its components of other types does.
C10_FragmentsInOrder ==
    LET known == [rPage EXCEPT !.components = Recognised(rPage.components)]
    IN  (rOut # NotRendered /\ generate_html_export(known).err = "none") =>
           /\ rOut = generate_html_export(known)
           /\ Len(rOut.html) = Len(known.components)

Serial(L, r) ==
    CASE r.op = "add" -> L \o <<r.comp>>
      [] r.op = "delete_comp" -> SelectSeq(L, LAMBDA c : c.id # r.cid)
      [] r.op = "update_comp" ->
           IF \E k \in 1..Len(L) : L[k].id = r.cid
           THEN LET j == Min({k \in 1..Len(L) : L[k].id = r.cid})
                IN  [k \in 1..Len(L) |-> IF k = j THEN r.comp ELSE L[k]]
           ELSE L
      [] OTHER -> L

\* slot q has a component request on the page of slot p's request in flight
Overlaps(p, q) ==
    /\ q # p
    /\ pc[q] = "db"
    /\ req[q].op \in ComponentOps
    /\ req[q].page_id = req[p].page_id

\* C12: concurrent component operations on one page are each atomic: a
\* step of add_component, update_component or delete_component taken
\* while other component requests on the page are in flight makes of the
\* page's list what the request makes of it on its own, so the list is at
\* any time the result of the completed requests in the order of their
\* steps; and when two add_component calls have been the only requests,
\* both components are in the list.
C12_ComponentOpsSerial ==
    /\ [][\A p \in Procs :
           (Steps(p) /\ req[p].op \in ComponentOps
              /\ ~Absent(req[p].page_id)
              /\ \E q \in Procs : Overlaps(p, q)) =>
              LET i == FindOne(store, req[p].page_id)
              IN  /\ Len(store') = Len(store)
                  /\ store'[i].components = Serial(store[i].components, req[p])
                  /\ \A q \in Procs : Overlaps(p, q) => pc'[q] = "db"]_vars
    /\ [](\A p, q \in Procs :
            (p # q /\ calls = 2
               /\ pc[p] = "done" /\ pc[q] = "done"
               /\ req[p].op = "add" /\ req[q].op = "add"
               /\ req[p].page_id = req[q].page_id
               /\ ~Absent(req[p].page_id)) =>
               LET L == store[FindOne(store, req[p].page_id)].components
               IN  \E j, k \in 1..Len(L) :
                      j # k /\ L[j] = req[p].comp /\ L[k] = req[q].comp)

\* two add_component calls have overlapped: the later one's component is
\* in the list before the earlier one's
C12_Witness ==
    /\ calls = 2
    /\ pc[1] = "done" /\ pc[2] = "done"
    /\ req[1].op = "add" /\ req[2].op = "add"
    /\ req[1].comp # req[2].comp
    /\ LET L == store[FindOne(store, req[1].page_id)].components
       IN  /\ Len(L) >= 2
           /\ L[Len(L) - 1] = req[2].comp
           /\ L[Len(L)] = req[1].comp

\* the fields of a page document
PageFields == {"id", "title", "theme", "components", "updated_at"}

\* C13: update_landing_page on an existing page id is a partial merge: its
\* write gives every supplied field of the page the supplied value and
\* updated_at the time of the request, keeps every other field of the page
\* and every other page, and the request returns the page it wrote.
C13_UpdateIsPartialMerge ==
    [][\A p \in Procs :
         /\ (Steps(p) /\ pc[p] = "db" /\ req[p].op = "update"
               /\ ~Absent(req[p].page_id)) =>
               LET i == FindOne(store, req[p].page_id)
               IN  /\ Len(store') = Len(store)
                   /\ \A k \in 1..Len(store) : k # i => store'[k] = store[k]
                   /\ \A f \in DOMAIN req[p].body :
                         store'[i][f] = req[p].body[f]
                   /\ store'[i].updated_at = req[p].ts
                   /\ \A f \in PageFields \ (DOMAIN req[p].body
                                               \cup {"updated_at"}) :
                         store'[i][f] = store[i][f]
         /\ (Responds(p) /\ pc[p] = "reread"
               /\ \E k \in 1..Len(store) :
                     /\ store[k].oid = req[p].page_id
                     /\ store[k].updated_at = req[p].ts
                     /\ \A f \in DOMAIN req[p].body :
                           store[k][f] = req[p].body[f]) =>
               /\ resp'[p].status = 200
               /\ \A f \in DOMAIN req[p].body :
                     resp'[p].page[1][f] = req[p].body[f]
               /\ resp'[p].page[1].updated_at = req[p].ts]_vars

\* the documents of s whose id is not id, in the order of s
Others(s, id) == SelectSeq(s, LAMBDA d : d.id # id)

\* C14: delete_landing_page on an id of the store answers with a
\* confirmation and leaves no page of that id, so that get_landing_page
\* answers 404 from then on; on an id that is not in the store it answers
\* 404 and leaves the store as it was; the pages of other ids stay as they
\* were in both cases.
C14_DeleteRemovesPage ==
    [][\A p \in Procs :
         (Steps(p) /\ req[p].op = "delete") =>
            /\ Others(store', req[p].page_id) = Others(store, req[p].page_id)
            /\ IF Absent(req[p].page_id)
               THEN resp'[p] = NotFound /\ store' = store
               ELSE /\ resp'[p].status = 200
                    /\ FindOne(store', req[p].page_id) = 0]_vars

\* the positions of L whose component has another id than cid
Kept(L, cid) == {k \in 1..Len(L) : L[k].id # cid}

\* C15: update_component(page, cid, body) on a page that has a component
\* of id cid puts body in the place of the first such component, whole,
\* leaves the length of the list and every other component as they were
\* and sets updated_at to the time of the request; delete_component(page,
\* cid) leaves the components of another id than cid, in their order, and
\* sets updated_at to the time of the request.  Neither touches another
\* field of the page.
C15_ComponentUpdateDelete ==
    [][\A p \in Procs :
         LET docs == {i \in Matching(store, req[p].page_id) :
                        req[p].op = "update_comp" =>
                           HasComp(store[i].components, req[p].cid)}
             i == Min(docs)
             L == store[i].components
             M == store'[i].components
         IN  (Steps(p) /\ req[p].op \in {"update_comp", "delete_comp"}
                /\ docs # {}) =>
                /\ Len(store') = Len(store)
                /\ \A k \in 1..Len(store) : k # i => store'[k] = store[k]
                /\ store'[i] = [store[i] EXCEPT !.components = M,
                                                !.updated_at = req[p].ts]
                /\ req[p].op = "update_comp" =>
                      LET j == Min({k \in 1..Len(L) : L[k].id = req[p].cid})
                      IN  /\ Len(M) = Len(L)
                          /\ M[j] = req[p].comp
                          /\ \A k \in 1..Len(L) : k # j => M[k] = L[k]
                /\ req[p].op = "delete_comp" =>
                      /\ Len(M) = Cardinality(Kept(L, req[p].cid))
                      /\ \A k \in Kept(L, req[p].cid) :
                            M[Cardinality({n \in Kept(L, req[p].cid) : n <= k})]
                               = L[k]]_vars

\* update_component, the only request so far, has put a body of another
\* id in the place of the page's component, at a later time than the
\* page's creation
C15_WitnessUpdate ==
    \E p \in Procs :
       /\ calls = 1
       /\ pc[p] = "done" /\ req[p].op = "update_comp"
       /\ req[p].comp.id # req[p].cid
       /\ req[p].ts > 0
       /\ LET d == store[FindOne(store, req[p].page_id)]
          IN  /\ d.components = <<req[p].comp>>
              /\ d.updated_at = req[p].ts

\* slots 1 and 2 hold the first and the second request, two
\* update_landing_page requests on one stored page that write different
\* fields, and the first has not written yet
FirstReadSecondWrote ==
    /\ calls = 2
    /\ req[1].op = "update" /\ req[2].op = "update"
    /\ req[1].page_id = req[2].page_id
    /\ ~Absent(req[1].page_id)
    /\ DOMAIN req[1].body # {} /\ DOMAIN req[2].body # {}
    /\ DOMAIN req[1].body \cap DOMAIN req[2].body = {}
    /\ pc[1] = "db" /\ pc[2] = "reread"

\* C16 as the specification states it: update_landing_page reads the page,
\* computes and writes the page back, so when the first request has read
\* the page before the second wrote it, the write of the first loses the
\* update of the second: a field the second wrote no longer holds the
\* value it wrote.
C16_LostUpdate ==
    [][(FirstReadSecondWrote /\ pc'[1] = "reread") =>
          LET i == FindOne(store, req[2].page_id)
          IN  \E f \in DOMAIN req[2].body : store'[i][f] # req[2].body[f]]_vars

\* C16: the write of update_landing_page is one $set of the fields of its
\* body and of updated_at: it changes no other field of any page, so a
\* field a concurrent update_landing_page has written, and that the body
\* does not name, keeps the value that request wrote.
C16_NoLostUpdate ==
    [][\A p, q \in Procs :
         (Steps(p) /\ pc[p] = "db" /\ req[p].op = "update"
            /\ q # p /\ pc[q] = "reread") =>
            /\ Len(store') = Len(store)
            /\ \A k \in 1..Len(store) :
                  \A f \in DOMAIN req[q].body
                             \ (DOMAIN req[p].body \cup {"updated_at"}) :
                     store'[k][f] = store[k][f]]_vars

\* the first request has written after the second, and the title of the
\* one and the theme of the other are both in the page
C16_Witness ==
    /\ calls = 2
    /\ pc[1] = "reread" /\ pc[2] = "done"
    /\ req[1].op = "update" /\ req[2].op = "update"
    /\ req[1].page_id = req[2].page_id
    /\ DOMAIN req[1].body = {"title"} /\ DOMAIN req[2].body = {"theme"}
    /\ resp[2].status = 200
    /\ resp[2].page[1].title # req[1].body.title
    /\ LET d == store[FindOne(store, req[1].page_id)]
       IN  d.title = req[1].body.title /\ d.theme = req[2].body.theme

\* C17: every page document of the store conforms to the data model, and
\* get_landing_page and get_landing_pages answer with pages, never with a
\* validation error.
C17_StoredPagesConform ==
    /\ \A i \in 1..Len(store) : Validates(store[i])
    /\ \A p \in Procs :
          (pc[p] = "done" /\ req[p].op \in {"get", "list"}) =>
             resp[p] # ServerError("ValidationError")

\* C18: an update_landing_page that answers 404 has modified no page: when
\* its write changes the store, the page of the request's id is there for
\* the re-read that follows.
C18_NotFoundModifiesNothing ==
    [][\A p \in Procs :
         (Steps(p) /\ pc[p] = "db" /\ req[p].op = "update"
            /\ store' # store) =>
            FindOne(store', req[p].page_id) # 0]_vars

====
